---------------------------- MODULE Spec2Model ----------------------------
(***************************************************************************)
(* A model of tink.jwt._raw_jwt: the RawJwt claim set, its two factories   *)
(* (create, from_json_payload), its validators, its accessors and its JSON *)
(* codec.                                                                  *)
(*                                                                         *)
(* Python values are tagged records [t, v]:                                *)
(*   none, bool, int, float, str, list, tuple, dict, obj, datetime.        *)
(* An int is the pair <<hi, lo>> standing for hi * 2^34 + lo (Python ints  *)
(* are unbounded, the checker's are 32 bits wide; 2^34 s is where the      *)
(* binade of a double changes, see timestamp).  A float is a count of      *)
(* halves (3 is 1.5).  A dict is the sequence of its <<key, value>> items  *)
(* in insertion order.  A JSON text is the sequence of its tokens.         *)
(***************************************************************************)
EXTENDS Integers, Sequences, FiniteSets, TLC

VARIABLES phase, jwt, call, ret, heap, held, snap, muts

vars == <<phase, jwt, call, ret, heap, held, snap, muts>>

---------------------------------------------------------------------------
(* Python values *)

None == [t |-> "none", v |-> 0]
Bool(b) == [t |-> "bool", v |-> b]
PyInt(n) == [t |-> "int", v |-> <<0, n>>]
Float(halves) == [t |-> "float", v |-> halves]
Str(s) == [t |-> "str", v |-> s]
List(items) == [t |-> "list", v |-> items]
Tuple(items) == [t |-> "tuple", v |-> items]
Dict(items) == [t |-> "dict", v |-> items]
Obj == [t |-> "obj", v |-> 0]
Datetime(tzinfo, sec, us) == [t |-> "datetime", v |-> [tzinfo |-> tzinfo, sec |-> sec, us |-> us]]

Range(s) == {s[i] : i \in 1..Len(s)}

(* bool(x): the truth value Python's `if x:` tests *)
Truthy(x) ==
  CASE x.t = "none" -> FALSE
    [] x.t = "bool" -> x.v
    [] x.t = "int" -> x.v # <<0, 0>>
    [] x.t = "float" -> x.v # 0
    [] x.t = "str" -> x.v # ""
    [] x.t \in {"list", "tuple", "dict"} -> Len(x.v) > 0
    [] OTHER -> TRUE

(* dict operations: key in d, d[key], d[key] = value *)
DictHas(d, k) == \E i \in 1..Len(d.v) : d.v[i][1] = k
DictGet(d, k) == d.v[CHOOSE i \in 1..Len(d.v) : d.v[i][1] = k][2]
DictSet(d, k, x) ==
  IF DictHas(d, k)
    THEN Dict([i \in 1..Len(d.v) |-> IF d.v[i][1] = k THEN <<k, x>> ELSE d.v[i]])
    ELSE Dict(Append(d.v, <<k, x>>))
DictKeys(d) == {d.v[i][1] : i \in 1..Len(d.v)}

(* results of an operation: a value, or a raised exception *)
Ok(x) == [err |-> "none", val |-> x]
Raise(e) == [err |-> e, val |-> None]

---------------------------------------------------------------------------
(* The json module: dumps renders a value as tokens, loads parses tokens. *)

(* a token is tagged like a value: [t, v], t its kind *)
Tok(k, x) == [t |-> k, v |-> x]
LBrace == Tok("{", 0)
RBrace == Tok("}", 0)
LBrack == Tok("[", 0)
RBrack == Tok("]", 0)
Comma == Tok(",", 0)
Colon == Tok(":", 0)

(* str(n) for the small ints used as dict keys *)
IntRepr(n) ==
  CASE n = <<0, 0>> -> "0"
    [] n = <<0, 1>> -> "1"
    [] n = <<0, 2>> -> "2"
    [] OTHER -> "n"

(* the key json.dumps writes for a dict key: str, int, float, bool and
   None keys are converted to strings, any other key is a TypeError *)
KeyOk(k) == k.t \in {"str", "int", "float", "bool", "none"}
KeyRepr(k) ==
  CASE k.t = "str" -> k.v
    [] k.t = "int" -> IntRepr(k.v)
    [] k.t = "float" -> IF k.v = 3 THEN "1.5" ELSE "f"
    [] k.t = "bool" -> IF k.v THEN "true" ELSE "false"
    [] OTHER -> "null"

RECURSIVE Dumps(_)
RECURSIVE DumpsItems(_, _)
RECURSIVE DumpsMembers(_, _)

(* the elements of a list or tuple from index i on, comma separated *)
DumpsItems(s, i) ==
  IF i > Len(s) THEN Ok(<<>>)
  ELSE LET head == Dumps(s[i])
           tail == DumpsItems(s, i + 1)
       IN IF head.err # "none" THEN head
          ELSE IF tail.err # "none" THEN tail
          ELSE Ok(head.val \o (IF i < Len(s) THEN <<Comma>> ELSE <<>>) \o tail.val)

(* the members of a dict from index i on *)
DumpsMembers(s, i) ==
  IF i > Len(s) THEN Ok(<<>>)
  ELSE IF ~KeyOk(s[i][1]) THEN Raise("TypeError")
  ELSE LET head == Dumps(s[i][2])
           tail == DumpsMembers(s, i + 1)
       IN IF head.err # "none" THEN head
          ELSE IF tail.err # "none" THEN tail
          ELSE Ok(<<Tok("string", KeyRepr(s[i][1])), Colon>> \o head.val
                  \o (IF i < Len(s) THEN <<Comma>> ELSE <<>>) \o tail.val)

(* json.dumps(x): the text, or TypeError for a value JSON cannot serialize *)
Dumps(x) ==
  CASE x.t = "none" -> Ok(<<Tok("null", 0)>>)
    [] x.t = "bool" -> Ok(<<Tok(IF x.v THEN "true" ELSE "false", 0)>>)
    [] x.t = "int" -> Ok(<<Tok("integer", x.v)>>)
    [] x.t = "float" -> Ok(<<Tok("real", x.v)>>)
    [] x.t = "str" -> Ok(<<Tok("string", x.v)>>)
    [] x.t \in {"list", "tuple"} ->
         LET body == DumpsItems(x.v, 1)
         IN IF body.err # "none" THEN body ELSE Ok(<<LBrack>> \o body.val \o <<RBrack>>)
    [] x.t = "dict" ->
         LET body == DumpsMembers(x.v, 1)
         IN IF body.err # "none" THEN body ELSE Ok(<<LBrace>> \o body.val \o <<RBrace>>)
    [] OTHER -> Raise("TypeError")

(* A parse result: ok, the value, and the index of the next unread token. *)
Parsed(x, next) == [ok |-> TRUE, val |-> x, next |-> next]
NoParse == [ok |-> FALSE, val |-> None, next |-> 0]

RECURSIVE ParseValue(_, _)
RECURSIVE ParseItems(_, _, _)
RECURSIVE ParseMembers(_, _, _)

(* after "[" and at least one element: "," value ... "]" *)
ParseItems(toks, i, acc) ==
  IF i > Len(toks) THEN NoParse
  ELSE IF toks[i] = RBrack THEN Parsed(List(acc), i + 1)
  ELSE IF toks[i] # Comma THEN NoParse
  ELSE LET e == ParseValue(toks, i + 1)
       IN IF ~e.ok THEN NoParse ELSE ParseItems(toks, e.next, Append(acc, e.val))

(* one member "key" ":" value at i, then "," member ... "}" *)
ParseMembers(toks, i, acc) ==
  IF i + 1 > Len(toks) THEN NoParse
  ELSE IF toks[i].t # "string" \/ toks[i + 1] # Colon THEN NoParse
  ELSE LET e == ParseValue(toks, i + 2)
       IN IF ~e.ok THEN NoParse
          ELSE LET d == DictSet(acc, Str(toks[i].v), e.val)
               IN IF e.next > Len(toks) THEN NoParse
                  ELSE IF toks[e.next] = RBrace THEN Parsed(d, e.next + 1)
                  ELSE IF toks[e.next] = Comma THEN ParseMembers(toks, e.next + 1, d)
                  ELSE NoParse

ParseValue(toks, i) ==
  IF i > Len(toks) THEN NoParse
  ELSE LET tk == toks[i]
       IN CASE tk.t = "null" -> Parsed(None, i + 1)
            [] tk.t = "true" -> Parsed(Bool(TRUE), i + 1)
            [] tk.t = "false" -> Parsed(Bool(FALSE), i + 1)
            [] tk.t = "integer" -> Parsed([t |-> "int", v |-> tk.v], i + 1)
            [] tk.t = "real" -> Parsed(Float(tk.v), i + 1)
            [] tk.t = "string" -> Parsed(Str(tk.v), i + 1)
            [] tk.t = "[" ->
                 IF i + 1 <= Len(toks) /\ toks[i + 1] = RBrack
                   THEN Parsed(List(<<>>), i + 2)
                   ELSE LET e == ParseValue(toks, i + 1)
                        IN IF ~e.ok THEN NoParse ELSE ParseItems(toks, e.next, <<e.val>>)
            [] tk.t = "{" ->
                 IF i + 1 <= Len(toks) /\ toks[i + 1] = RBrace
                   THEN Parsed(Dict(<<>>), i + 2)
                   ELSE ParseMembers(toks, i + 1, Dict(<<>>))
            [] OTHER -> NoParse

(* json.loads(text): the value, or JSONDecodeError when the text is not
   exactly one JSON value *)
Loads(text) ==
  LET p == ParseValue(text, 1)
  IN IF p.ok /\ p.next = Len(text) + 1 THEN Ok(p.val) ELSE Raise("JSONDecodeError")

---------------------------------------------------------------------------
(* Timestamps.  A datetime is [tzinfo, sec, us]: tzinfo is <<>> for a naive
   datetime and <<offset>> (seconds east of UTC) for an aware one, sec is
   the wall-clock time in whole seconds since 1970-01-01T00:00:00 (an int
   pair <<hi, lo>>) and us the microseconds, 0..999999. *)

Log2(n) == CHOOSE e \in 0..30 : 2^e <= n /\ n < 2^(e + 1)

(* the seconds of the instant in UTC: wall clock minus offset *)
UtcSeconds(d) == <<d.sec[1], d.sec[2] - d.tzinfo[1]>>

(* float arithmetic of t.timestamp(): the exact value sec + us/10^6 is
   rounded to the nearest double.  A double in [2^e, 2^(e+1)) has a spacing
   of 2^(e-52) s, so a value within 2^(e-53) s of a whole second becomes
   that whole second: the microseconds that are within half a spacing.
   Below 2^34 s the half spacing is under a microsecond. *)
HalfUlpMicros(sec) ==
  IF sec[1] < 1 THEN 0 ELSE 1000000 \div 2^(19 - Log2(sec[1]))

(* int(t.timestamp()) for an aware datetime: the rounded double, truncated
   toward zero *)
IntTimestamp(d) ==
  LET s == UtcSeconds(d)
  IN IF s[1] > 0 \/ s[2] >= 0
       THEN IF d.us > 0 /\ 1000000 - d.us <= HalfUlpMicros(s)
              THEN <<s[1], s[2] + 1>> ELSE s
       ELSE IF d.us > 0 THEN <<s[1], s[2] + 1>> ELSE s

from_datetime(t) ==
  IF Len(t.v.tzinfo) = 0 THEN Raise("JwtInvalidError")
  ELSE Ok([t |-> "int", v |-> IntTimestamp(t.v)])

(* datetime.fromtimestamp(timestamp, utc) of an int, a bool or a float *)
to_datetime(timestamp) ==
  CASE timestamp.t = "int" -> Ok(Datetime(<<0>>, timestamp.v, 0))
    [] timestamp.t = "bool" -> Ok(Datetime(<<0>>, <<0, IF timestamp.v THEN 1 ELSE 0>>, 0))
    [] timestamp.t = "float" ->
         Ok(Datetime(<<0>>, <<0, timestamp.v \div 2>>, (timestamp.v % 2) * 500000))
    [] OTHER -> Raise("TypeError")

---------------------------------------------------------------------------
(* Registered names and the validators of __init__ *)

REGISTERED_NAMES == {"iss", "sub", "jti", "aud", "exp", "nbf", "iat"}

(* variant: no name is refused *)
AnyCustomClaimName(name) == Ok(None)

(* name in _REGISTERED_NAMES, for any hashable name *)
validate_custom_claim_name(name) ==
  IF name.t = "str" /\ name.v \in REGISTERED_NAMES
    THEN Raise("JwtInvalidError") ELSE Ok(None)

(* `name in payload`: key of a dict, element of a list, substring of a str
   (the strings of this model hold a claim name only by being equal to it);
   any other payload is not iterable *)
Contains(payload, name) ==
  CASE payload.t = "dict" -> Ok(DictHas(payload, Str(name)))
    [] payload.t \in {"list", "tuple"} -> Ok(Str(name) \in Range(payload.v))
    [] payload.t = "str" -> Ok(payload.v = name)
    [] OTHER -> Raise("TypeError")

(* `payload[name]` *)
Subscript(payload, name) ==
  IF payload.t = "dict"
    THEN IF DictHas(payload, Str(name)) THEN Ok(DictGet(payload, Str(name)))
         ELSE Raise("KeyError")
    ELSE Raise("TypeError")

(* a validator's check of claim `name`: Good holds the allowed types *)
ValidateTyped(payload, name, Good) ==
  LET c == Contains(payload, name)
      x == Subscript(payload, name)
  IN IF c.err # "none" THEN Raise(c.err)
     ELSE IF ~c.val THEN Ok(payload)
     ELSE IF x.err # "none" THEN Raise(x.err)
     ELSE IF x.val.t \notin Good THEN Raise("JwtInvalidError")
     ELSE Ok(payload)

validate_string_claim(payload, name) == ValidateTyped(payload, name, {"str"})

(* isinstance(x, (int, float)) also holds of a bool *)
validate_number_claim(payload, name) ==
  ValidateTyped(payload, name, {"int", "float", "bool"})

(* variant: an empty audience list passes *)
AudienceClaimAllowingEmpty(payload) ==
  LET c == Contains(payload, "aud")
      x == Subscript(payload, "aud")
  IN IF c.err # "none" THEN Raise(c.err)
     ELSE IF ~c.val THEN Ok(payload)
     ELSE IF x.err # "none" THEN Raise(x.err)
     ELSE IF x.val.t = "str" THEN Ok(DictSet(payload, Str("aud"), List(<<x.val>>)))
     ELSE IF x.val.t # "list" THEN Raise("JwtInvalidError")
     ELSE IF \E i \in 1..Len(x.val.v) : x.val.v[i].t # "str" THEN Raise("JwtInvalidError")
     ELSE Ok(payload)

validate_audience_claim(payload) ==
  LET c == Contains(payload, "aud")
      x == Subscript(payload, "aud")
  IN IF c.err # "none" THEN Raise(c.err)
     ELSE IF ~c.val THEN Ok(payload)
     ELSE IF x.err # "none" THEN Raise(x.err)
     ELSE IF x.val.t = "str" THEN Ok(DictSet(payload, Str("aud"), List(<<x.val>>)))
     ELSE IF x.val.t # "list" \/ Len(x.val.v) = 0 THEN Raise("JwtInvalidError")
     ELSE IF \E i \in 1..Len(x.val.v) : x.val.v[i].t # "str" THEN Raise("JwtInvalidError")
     ELSE Ok(payload)

(* r, and then f of its value unless r raised *)
Then(r, f(_)) == IF r.err # "none" THEN r ELSE f(r.val)

(* RawJwt.__init__: the payload the instance holds, or the first error *)
init(payload) ==
  LET iss == validate_string_claim(payload, "iss")
      sub == Then(iss, LAMBDA p : validate_string_claim(p, "sub"))
      jti == Then(sub, LAMBDA p : validate_string_claim(p, "jti"))
      exp == Then(jti, LAMBDA p : validate_number_claim(p, "exp"))
      nbf == Then(exp, LAMBDA p : validate_number_claim(p, "nbf"))
      iat == Then(nbf, LAMBDA p : validate_number_claim(p, "iat"))
  IN Then(iat, LAMBDA p : validate_audience_claim(p))

---------------------------------------------------------------------------
(* Accessors, each on the payload of a constructed RawJwt *)

has_claim(payload, name) ==
  LET c == Contains(payload, name)
  IN IF c.err # "none" THEN Raise(c.err) ELSE Ok(Bool(c.val))

has_issuer(payload) == has_claim(payload, "iss")
issuer(payload) == Subscript(payload, "iss")
has_subject(payload) == has_claim(payload, "sub")
subject(payload) == Subscript(payload, "sub")
has_audiences(payload) == has_claim(payload, "aud")

(* list(payload['aud']) *)
audiences(payload) ==
  LET x == Subscript(payload, "aud")
  IN IF x.err # "none" THEN x
     ELSE IF x.val.t \in {"list", "tuple"} THEN Ok(List(x.val.v))
     ELSE Raise("TypeError")

has_jwt_id(payload) == has_claim(payload, "jti")
jwt_id(payload) == Subscript(payload, "jti")
has_expiration(payload) == has_claim(payload, "exp")
expiration(payload) == Then(Subscript(payload, "exp"), LAMBDA x : to_datetime(x))
has_not_before(payload) == has_claim(payload, "nbf")
not_before(payload) == Then(Subscript(payload, "nbf"), LAMBDA x : to_datetime(x))
has_issued_at(payload) == has_claim(payload, "iat")
issued_at(payload) == Then(Subscript(payload, "iat"), LAMBDA x : to_datetime(x))

(* only a dict has keys() *)
custom_claim_names(payload) ==
  IF payload.t # "dict" THEN Raise("AttributeError")
  ELSE Ok([t |-> "set", v |-> {k.v : k \in {j \in DictKeys(payload) : j.v \notin REGISTERED_NAMES}}])

(* the value, a deep copy of it when it is a list or a dict *)
custom_claim(payload, name) ==
  Then(validate_custom_claim_name(Str(name)), LAMBDA u : Subscript(payload, name))

json_payload(payload) ==
  Then(Dumps(payload), LAMBDA text : Ok([t |-> "text", v |-> text]))

---------------------------------------------------------------------------
(* The factories *)

(* payload[name] = value when cond holds *)
SetIf(cond, payload, name, value) ==
  IF cond THEN DictSet(payload, Str(name), value) ELSE payload

(* if t: payload[name] = _from_datetime(t) *)
SetTimestamp(payload, name, t) ==
  IF ~Truthy(t) THEN Ok(payload)
  ELSE Then(from_datetime(t), LAMBDA x : Ok(DictSet(payload, Str(name), x)))

(* variant: the value is stored as given *)
StoredAsGiven(value) == Ok(value)

(* json.loads(json.dumps(value)) *)
Canonical(value) == Then(Dumps(value), LAMBDA text : Loads(text))

(* variant: the final else branch stores the value instead of raising *)
CustomClaimValueUnchecked(value) ==
  IF value.t \in {"list", "dict"} THEN Canonical(value) ELSE Ok(value)

(* the value create stores for a custom claim *)
CustomClaimValue(value) ==
  IF value.t \in {"none", "bool", "int", "float", "str"} THEN Ok(value)
  ELSE IF value.t = "list" THEN Canonical(value)
  ELSE IF value.t = "dict" THEN Canonical(value)
  ELSE Raise("JwtInvalidError")

RECURSIVE AddCustomClaims(_, _, _)
(* the loop over custom_claims.items(), from item i on *)
AddCustomClaims(payload, items, i) ==
  IF i > Len(items) THEN Ok(payload)
  ELSE LET name == items[i][1]
           value == items[i][2]
       IN Then(validate_custom_claim_name(name), LAMBDA u :
            IF name.t # "str" THEN Raise("JwtInvalidError")
            ELSE Then(CustomClaimValue(value), LAMBDA x :
                   AddCustomClaims(DictSet(payload, name, x), items, i + 1)))

(* the tests create makes of its string arguments: `if issuer:` and
   `if subject:` test the truth value, jwt_id and audiences `is not None` *)
IssuerGiven(a) == Truthy(a.issuer)
SubjectGiven(a) == Truthy(a.subject)
(* variant: jwt_id is tested like issuer, by its truth value *)
JwtIdTruthy(a) == Truthy(a.jwt_id)
JwtIdGiven(a) == a.jwt_id # None
AudiencesGiven(a) == a.audiences # None

(* RawJwt.create: the payload of the new instance, or the error raised;
   copy.copy(audiences) is a list of the same elements *)
create(a) ==
  LET p1 == SetIf(IssuerGiven(a), Dict(<<>>), "iss", a.issuer)
      p2 == SetIf(SubjectGiven(a), p1, "sub", a.subject)
      p3 == SetIf(JwtIdGiven(a), p2, "jti", a.jwt_id)
      p4 == SetIf(AudiencesGiven(a), p3, "aud", a.audiences)
      p5 == SetTimestamp(p4, "exp", a.expiration)
      p6 == Then(p5, LAMBDA p : SetTimestamp(p, "nbf", a.not_before))
      p7 == Then(p6, LAMBDA p : SetTimestamp(p, "iat", a.issued_at))
      p8 == Then(p7, LAMBDA p :
              IF Truthy(a.custom_claims) THEN AddCustomClaims(p, a.custom_claims.v, 1)
              ELSE Ok(p))
  IN Then(p8, LAMBDA p : init(p))

(* RawJwt.from_json_payload *)
from_json_payload(text) == Then(Loads(text), LAMBDA p : init(p))

---------------------------------------------------------------------------
(* Inputs *)

(* a call of create passes at most this many arguments *)
MaxArgs == 2
(* a payload text drawn token by token has at most this many tokens *)
MaxTokens == 3

ArgNames ==
  {"issuer", "subject", "audiences", "jwt_id", "expiration", "not_before",
   "issued_at", "custom_claims"}

S(x) == Str(x)
Utc(lo, us) == Datetime(<<0>>, <<0, lo>>, us)

Issuers == {Str(""), Str("a"), PyInt(0), PyInt(5)}
Subjects == {Str(""), Str("s")}
JwtIds == {Str(""), Str("j"), PyInt(0)}
Audiences ==
  {Str("a"), Str(""), List(<<>>), List(<<S("a")>>), List(<<S("a"), S("b")>>),
   List(<<S("a"), PyInt(1)>>), List(<<List(<<S("a")>>)>>), Tuple(<<S("a")>>),
   PyInt(1), Dict(<<>>)}
Expirations ==
  {Datetime(<<>>, <<0, 10>>, 0), Utc(10, 0), Utc(10, 500000), Utc(-2, 500000),
   Utc(0, 0), Datetime(<<3600>>, <<0, 3610>>, 250000),
   Datetime(<<0>>, <<1, 5>>, 999998), Datetime(<<0>>, <<1, 5>>, 999999)}
NotBefores == {Datetime(<<>>, <<0, 20>>, 0), Utc(20, 0)}
IssuedAts == {Datetime(<<>>, <<0, 30>>, 0), Utc(30, 500000)}

(* values of a custom claim: the allowed types, nested shapes JSON changes
   (a tuple, an int key), and objects JSON cannot serialize *)
CustomValues ==
  {None, Bool(TRUE), PyInt(1), Float(3), Str("v"), List(<<>>),
   List(<<S("a"), Tuple(<<S("b")>>)>>), Dict(<<<<S("k"), List(<<S("a")>>)>>>>),
   Dict(<<<<PyInt(1), S("x")>>, <<S("1"), S("y")>>>>),
   List(<<Obj>>), Dict(<<<<S("k"), Obj>>>>), Obj, Tuple(<<S("a")>>)}
CustomClaims ==
  {Dict(<<>>)}
  \cup {Dict(<<<<S("c"), x>>>>) : x \in CustomValues}
  \cup {Dict(<<<<S(n), x>>>>) : n \in REGISTERED_NAMES, x \in {Str("x"), PyInt(1), List(<<S("a")>>), Obj}}
  \cup {Dict(<<<<PyInt(5), S("v")>>>>),
        Dict(<<<<S("c"), S("v")>>, <<S("d"), List(<<S("a")>>)>>>>),
        Dict(<<<<S("c"), S("v")>>, <<S("iss"), S("x")>>>>),
        Dict(<<<<S("c"), List(<<Obj>>)>>, <<S("iss"), S("x")>>>>)}

ArgValues(name) ==
  CASE name = "issuer" -> Issuers
    [] name = "subject" -> Subjects
    [] name = "audiences" -> Audiences
    [] name = "jwt_id" -> JwtIds
    [] name = "expiration" -> Expirations
    [] name = "not_before" -> NotBefores
    [] name = "issued_at" -> IssuedAts
    [] OTHER -> CustomClaims

(* the argument records that pass exactly the arguments in `given` *)
ArgsGiving(given) ==
  [n \in ArgNames |-> IF n \in given THEN ArgValues(n) ELSE {None}]
CreateArgs ==
  UNION {{[n \in ArgNames |-> f[n]] : f \in
            [issuer : ArgsGiving(g)["issuer"], subject : ArgsGiving(g)["subject"],
             audiences : ArgsGiving(g)["audiences"], jwt_id : ArgsGiving(g)["jwt_id"],
             expiration : ArgsGiving(g)["expiration"],
             not_before : ArgsGiving(g)["not_before"],
             issued_at : ArgsGiving(g)["issued_at"],
             custom_claims : ArgsGiving(g)["custom_claims"]]}
         : g \in {h \in SUBSET ArgNames : Cardinality(h) <= MaxArgs}}

(* JSON values of a claim in a payload text *)
JsonValues ==
  {None, Bool(TRUE), PyInt(1), Float(3), Float(4), Str("a"), Str(""), List(<<>>),
   List(<<S("a")>>), List(<<S("a"), S("b")>>), List(<<S("a"), PyInt(1)>>),
   List(<<List(<<S("a")>>)>>), Dict(<<<<S("k"), S("a")>>>>)}
ObjectTexts ==
  {Dumps(Dict(<<<<S(n), x>>>>)).val : n \in REGISTERED_NAMES \cup {"c"}, x \in JsonValues}
  \cup {Dumps(Dict(<<<<S("iss"), S("a")>>, <<S("aud"), S("b")>>, <<S("exp"), Float(3)>>>>)).val,
        <<LBrace, Tok("string", "iss"), Colon, Tok("integer", <<0, 1>>), Comma,
          Tok("string", "iss"), Colon, Tok("string", "a"), RBrace>>,
        <<LBrace, Tok("string", "iss"), Colon, Tok("string", "a"), Comma, RBrace>>}

TokenAlphabet ==
  {LBrace, RBrace, LBrack, RBrack, Comma, Colon, Tok("string", "iss"),
   Tok("null", 0), Tok("integer", <<0, 1>>)}
TokenTexts == UNION {[1..n -> TokenAlphabet] : n \in 0..MaxTokens}
Texts == ObjectTexts \cup TokenTexts

ClaimNames == REGISTERED_NAMES \cup {"c", "d", "zz"}

---------------------------------------------------------------------------
(* The state machine: a caller constructs a RawJwt by one of the factories,
   calls its accessors in any order, may parse back the text json_payload
   returned, and releases the instance.

     phase  "idle" (no instance), "live" or "failed" (the factory raised)
     jwt    the payload of the instance, NoJwt when there is none
     call   the last operation called and its argument
     ret    what it returned or raised *)

NoJwt == [t |-> "nojwt", v |-> 0]
NoCall == [op |-> "none", arg |-> None]

Init ==
  /\ phase = "idle"
  /\ jwt = NoJwt
  /\ call = NoCall
  /\ ret = Ok(None)
  /\ heap = <<>>
  /\ held = {}
  /\ snap = None
  /\ muts = 0

Constructed(op, arg, r) ==
  /\ call' = [op |-> op, arg |-> arg]
  /\ ret' = [err |-> r.err, val |-> None]
  /\ jwt' = IF r.err = "none" THEN r.val ELSE NoJwt
  /\ phase' = IF r.err = "none" THEN "live" ELSE "failed"
  /\ UNCHANGED <<heap, held, snap, muts>>

Create ==
  /\ phase = "idle"
  /\ \E a \in CreateArgs : Constructed("create", a, create(a))

(* from_json_payload of a text from outside, or of the text json_payload
   has just returned for the live instance *)
FromJsonPayload ==
  \E text \in (IF phase = "idle" THEN Texts
               ELSE IF phase = "live" /\ call.op = "json_payload" /\ ret.err = "none"
                 THEN {ret.val.v} ELSE {}) :
    Constructed("from_json_payload", [text |-> text, of |-> jwt], from_json_payload(text))

Accessed(op, arg, r) ==
  /\ phase = "live"
  /\ call' = [op |-> op, arg |-> arg]
  /\ ret' = r
  /\ UNCHANGED <<phase, jwt, heap, held, snap, muts>>

HasIssuer == Accessed("has_issuer", None, has_issuer(jwt))
Issuer == Accessed("issuer", None, issuer(jwt))
HasSubject == Accessed("has_subject", None, has_subject(jwt))
Subject == Accessed("subject", None, subject(jwt))
HasAudiences == Accessed("has_audiences", None, has_audiences(jwt))
GetAudiences == Accessed("audiences", None, audiences(jwt))
HasJwtId == Accessed("has_jwt_id", None, has_jwt_id(jwt))
JwtId == Accessed("jwt_id", None, jwt_id(jwt))
HasExpiration == Accessed("has_expiration", None, has_expiration(jwt))
Expiration == Accessed("expiration", None, expiration(jwt))
HasNotBefore == Accessed("has_not_before", None, has_not_before(jwt))
NotBefore == Accessed("not_before", None, not_before(jwt))
HasIssuedAt == Accessed("has_issued_at", None, has_issued_at(jwt))
IssuedAt == Accessed("issued_at", None, issued_at(jwt))
CustomClaimNames == Accessed("custom_claim_names", None, custom_claim_names(jwt))
CustomClaim == \E n \in ClaimNames : Accessed("custom_claim", Str(n), custom_claim(jwt, n))
JsonPayload == Accessed("json_payload", None, json_payload(jwt))

Release ==
  /\ phase # "idle"
  /\ phase' = "idle"
  /\ jwt' = NoJwt
  /\ call' = NoCall
  /\ ret' = Ok(None)
  /\ UNCHANGED <<heap, held, snap, muts>>

Next ==
  \/ Create
  \/ FromJsonPayload
  \/ HasIssuer
  \/ Issuer
  \/ HasSubject
  \/ Subject
  \/ HasAudiences
  \/ GetAudiences
  \/ HasJwtId
  \/ JwtId
  \/ HasExpiration
  \/ Expiration
  \/ HasNotBefore
  \/ NotBefore
  \/ HasIssuedAt
  \/ IssuedAt
  \/ CustomClaimNames
  \/ CustomClaim
  \/ JsonPayload
  \/ Release

Spec == Init /\ [][Next]_vars

---------------------------------------------------------------------------
(* References.  The second specification keeps the lists and dicts of the
   program in a heap, to follow which of them the caller can reach: heap[id]
   is a list or dict object whose items are immutable values or references
   Ref(id) to other objects.

     heap   the objects, in order of allocation
     held   the references the caller holds: the arguments it built, the
            objects accessors returned to it
     jwt    the reference to the payload dict of the instance
     snap   the claims of the instance as constructed
     muts   the number of mutations the caller has made *)

Ref(id) == [t |-> "ref", v |-> id]

RECURSIVE Deep(_, _)
(* the value a cell stands for, references followed *)
Deep(h, x) ==
  CASE x.t = "ref" -> Deep(h, h[x.v])
    [] x.t = "list" -> List([i \in 1..Len(x.v) |-> Deep(h, x.v[i])])
    [] x.t = "dict" -> Dict([i \in 1..Len(x.v) |-> <<x.v[i][1], Deep(h, x.v[i][2])>>])
    [] OTHER -> x

Allocated(h, x) == [heap |-> h, cell |-> x]

RECURSIVE Alloc(_, _)
RECURSIVE AllocItems(_, _, _, _)
RECURSIVE AllocMembers(_, _, _, _)
AllocItems(h, items, i, acc) ==
  IF i > Len(items) THEN Allocated(h, acc)
  ELSE LET a == Alloc(h, items[i])
       IN AllocItems(a.heap, items, i + 1, Append(acc, a.cell))
AllocMembers(h, items, i, acc) ==
  IF i > Len(items) THEN Allocated(h, acc)
  ELSE LET a == Alloc(h, items[i][2])
       IN AllocMembers(a.heap, items, i + 1, Append(acc, <<items[i][1], a.cell>>))
(* new objects for a value: every list and dict in it is a fresh object *)
Alloc(h, x) ==
  CASE x.t = "list" ->
         LET a == AllocItems(h, x.v, 1, <<>>)
         IN Allocated(Append(a.heap, List(a.cell)), Ref(Len(a.heap) + 1))
    [] x.t = "dict" ->
         LET a == AllocMembers(h, x.v, 1, <<>>)
         IN Allocated(Append(a.heap, Dict(a.cell)), Ref(Len(a.heap) + 1))
    [] OTHER -> Allocated(h, x)

(* copy.copy(audiences): a new list or dict of the same items; an
   immutable value is its own copy *)
CopyAudiences(h, x) ==
  IF x.t = "ref" THEN Allocated(Append(h, h[x.v]), Ref(Len(h) + 1)) ELSE Allocated(h, x)

(* self._payload['aud'] = [audiences], for a bare string *)
NormalizeAudience(h, x) ==
  IF x.t = "str" THEN Allocated(Append(h, List(<<x>>)), Ref(Len(h) + 1)) ELSE Allocated(h, x)

(* json.loads(json.dumps(value)): loads builds new objects *)
CanonicalRef(h, x) == Alloc(h, Canonical(Deep(h, x)).val)

(* what create stores for a custom claim given as cell x *)
CustomClaimRef(h, x) == IF x.t = "ref" THEN CanonicalRef(h, x) ELSE Allocated(h, x)

RECURSIVE StoreClaims(_, _, _, _, _)
(* the items of the payload dict of a successful create, from claim i of
   its value `claims` on: the audiences are copied, the custom claims
   canonicalised, the other claims are immutable values *)
StoreClaims(h, a, claims, i, acc) ==
  IF i > Len(claims) THEN Allocated(h, acc)
  ELSE LET k == claims[i][1]
           x == IF k = Str("aud")
                  THEN LET c == CopyAudiences(h, a.audiences)
                       IN NormalizeAudience(c.heap, c.cell)
                ELSE IF k.v \in REGISTERED_NAMES THEN Allocated(h, claims[i][2])
                ELSE CustomClaimRef(h, DictGet(h[a.custom_claims.v], k))
       IN StoreClaims(x.heap, a, claims, i + 1, Append(acc, <<k, x.cell>>))

DeepArgs(h, a) == [n \in ArgNames |-> Deep(h, a[n])]

(* RawJwt.create on references: [err, heap, jwt] *)
HeapCreate(h, a) ==
  LET r == create(DeepArgs(h, a))
      s == StoreClaims(h, a, r.val.v, 1, <<>>)
  IN IF r.err # "none" THEN [err |-> r.err, heap |-> h, jwt |-> NoJwt]
     ELSE [err |-> "none", heap |-> Append(s.heap, Dict(s.cell)), jwt |-> Ref(Len(s.heap) + 1)]

(* RawJwt.from_json_payload on references: json.loads builds new objects *)
HeapFromJsonPayload(h, text) ==
  LET r == from_json_payload(text)
      s == Alloc(h, r.val)
  IN IF r.err # "none" THEN [err |-> r.err, heap |-> h, jwt |-> NoJwt]
     ELSE [err |-> "none", heap |-> s.heap, jwt |-> s.cell]

(* the cell self._payload[name] *)
PayloadCell(h, p, name) == Subscript(h[p.v], name)

(* list(self._payload['aud']): a new list of the same items *)
HeapAudiences(h, p) ==
  LET x == PayloadCell(h, p, "aud")
  IN IF x.err # "none" THEN [err |-> x.err, heap |-> h, cell |-> None]
     ELSE [err |-> "none", heap |-> Append(h, List(h[x.val.v].v)), cell |-> Ref(Len(h) + 1)]

(* copy.deepcopy(value) *)
DeepCopy(h, x) == Alloc(h, Deep(h, x))

(* variant: the stored object itself is returned *)
HeapCustomClaimShared(h, p, name) ==
  LET v == validate_custom_claim_name(Str(name))
      x == PayloadCell(h, p, name)
  IN IF v.err # "none" THEN [err |-> v.err, heap |-> h, cell |-> None]
     ELSE IF x.err # "none" THEN [err |-> x.err, heap |-> h, cell |-> None]
     ELSE [err |-> "none", heap |-> h, cell |-> x.val]

(* custom_claim(name): a deep copy of a list or dict, the value otherwise *)
HeapCustomClaim(h, p, name) ==
  LET v == validate_custom_claim_name(Str(name))
      x == PayloadCell(h, p, name)
      c == DeepCopy(h, x.val)
  IN IF v.err # "none" THEN [err |-> v.err, heap |-> h, cell |-> None]
     ELSE IF x.err # "none" THEN [err |-> x.err, heap |-> h, cell |-> None]
     ELSE IF x.val.t = "ref" THEN [err |-> "none", heap |-> c.heap, cell |-> c.cell]
     ELSE [err |-> "none", heap |-> h, cell |-> x.val]

(* the ids of the objects in a cell or object *)
RefsIn(x) ==
  CASE x.t = "ref" -> {x.v}
    [] x.t = "list" -> {x.v[i].v : i \in {j \in 1..Len(x.v) : x.v[j].t = "ref"}}
    [] x.t = "dict" -> {x.v[i][2].v : i \in {j \in 1..Len(x.v) : x.v[j][2].t = "ref"}}
    [] OTHER -> {}

RECURSIVE Reachable(_, _)
(* the objects reachable from the objects ids *)
Reachable(h, ids) ==
  LET more == ids \cup UNION {RefsIn(h[id]) : id \in ids}
  IN IF more = ids THEN ids ELSE Reachable(h, more)

(* the caller's mutations of an object it can reach *)
Mutation(obj, kind) ==
  CASE kind = "clear" -> [obj EXCEPT !.v = <<>>]
    [] obj.t = "list" -> List(Append(obj.v, Str("X")))
    [] OTHER -> DictSet(obj, Str("X"), Str("X"))

(* the heap holds at most this many objects *)
MaxObjects == 11
(* the caller mutates at most this many times *)
MaxMutations == 2

(* the caller's own objects: 1 an audience list, 4 a custom_claims dict
   whose claim c is the list 3 holding the dict 2 *)
CallerHeap ==
  <<List(<<Str("a"), Str("b")>>),
    Dict(<<<<Str("k"), Str("y")>>>>),
    List(<<Str("x"), Ref(2)>>),
    Dict(<<<<Str("c"), Ref(3)>>, <<Str("n"), PyInt(1)>>>>)>>

NoArgs == [n \in ArgNames |-> None]
HeapArgs ==
  {[NoArgs EXCEPT !.issuer = Str("a"), !.audiences = a, !.custom_claims = c] :
     a \in {None, Ref(1), Str("a")}, c \in {None, Ref(4)}}
HeapTexts ==
  {Dumps(Dict(<<<<Str("aud"), Str("a")>>,
                <<Str("c"), List(<<Str("x"), Dict(<<<<Str("k"), Str("y")>>>>)>>)>>>>)).val,
   Dumps(Dict(<<<<Str("iss"), PyInt(1)>>>>)).val}

InitAlias ==
  /\ phase = "idle"
  /\ jwt = NoJwt
  /\ call = NoCall
  /\ ret = Ok(None)
  /\ heap = CallerHeap
  /\ held = {1, 4}
  /\ snap = None
  /\ muts = 0

HeapConstructed(op, arg, r) ==
  /\ phase = "idle"
  /\ Len(r.heap) <= MaxObjects
  /\ call' = [op |-> op, arg |-> arg]
  /\ ret' = [err |-> r.err, val |-> None]
  /\ jwt' = r.jwt
  /\ heap' = r.heap
  /\ snap' = IF r.err = "none" THEN Deep(r.heap, r.jwt) ELSE None
  /\ phase' = IF r.err = "none" THEN "live" ELSE "failed"
  /\ UNCHANGED <<held, muts>>

AliasCreate == \E a \in HeapArgs : HeapConstructed("create", a, HeapCreate(heap, a))

AliasFromJsonPayload ==
  \E text \in HeapTexts :
    HeapConstructed("from_json_payload", [text |-> text, of |-> NoJwt],
                    HeapFromJsonPayload(heap, text))

(* an accessor that returns an object: the caller now holds it *)
HeapAccessed(op, arg, r) ==
  /\ phase = "live"
  /\ Len(r.heap) <= MaxObjects
  /\ call' = [op |-> op, arg |-> arg]
  /\ ret' = [err |-> r.err, val |-> r.cell]
  /\ heap' = r.heap
  /\ held' = held \cup RefsIn(r.cell)
  /\ UNCHANGED <<phase, jwt, snap, muts>>

(* an accessor that returns an immutable value *)
ValueAccessed(op, r) ==
  /\ phase = "live"
  /\ call' = [op |-> op, arg |-> None]
  /\ ret' = r
  /\ UNCHANGED <<phase, jwt, heap, held, snap, muts>>

AliasAudiences == HeapAccessed("audiences", None, HeapAudiences(heap, jwt))
AliasCustomClaim ==
  \E n \in {"c", "n"} : HeapAccessed("custom_claim", Str(n), HeapCustomClaim(heap, jwt, n))
AliasHasAudiences == ValueAccessed("has_audiences", has_audiences(Deep(heap, jwt)))
AliasIssuer == ValueAccessed("issuer", issuer(Deep(heap, jwt)))
AliasCustomClaimNames == ValueAccessed("custom_claim_names", custom_claim_names(Deep(heap, jwt)))
AliasJsonPayload == ValueAccessed("json_payload", json_payload(Deep(heap, jwt)))

(* the caller mutates an object it can reach from a reference it holds *)
Mutate ==
  /\ muts < MaxMutations
  /\ \E id \in Reachable(heap, held), kind \in {"clear", "add"} :
       /\ heap' = [heap EXCEPT ![id] = Mutation(heap[id], kind)]
       /\ call' = [op |-> "mutate", arg |-> Ref(id)]
  /\ ret' = Ok(None)
  /\ muts' = muts + 1
  /\ UNCHANGED <<phase, jwt, held, snap>>

NextAlias ==
  \/ AliasCreate
  \/ AliasFromJsonPayload
  \/ AliasAudiences
  \/ AliasCustomClaim
  \/ AliasHasAudiences
  \/ AliasIssuer
  \/ AliasCustomClaimNames
  \/ AliasJsonPayload
  \/ Mutate

SpecAlias == InitAlias /\ [][NextAlias]_vars

---------------------------------------------------------------------------
(* Properties *)

Live == phase = "live"
Failed == phase = "failed" /\ jwt = NoJwt /\ ret.err # "none"
Created == call.op = "create"
ParsedText == call.op = "from_json_payload"
IsTrue(r) == r.err = "none" /\ r.val = Bool(TRUE)
IsFalse(r) == r.err = "none" /\ r.val = Bool(FALSE)

(* the same claim names, and the same value for each *)
SameClaims(p, q) ==
  IF p.t = "dict" /\ q.t = "dict"
    THEN /\ DictKeys(p) = DictKeys(q)
         /\ \A k \in DictKeys(p) : DictGet(p, k) = DictGet(q, k)
    ELSE p = q

(* C1: round trip.  Parsing the text json_payload returned for a claim
   set succeeds and gives a claim set with the same claim names and the
   same value for each name. *)
RoundTrip ==
  ParsedText /\ call.arg.of # NoJwt =>
    Live /\ ret.err = "none" /\ SameClaims(jwt, call.arg.of)

(* a round trip of a claim set holding a registered claim next to a list
   or dict custom claim *)
RoundTripWitness ==
  /\ ParsedText /\ Live /\ call.arg.of # NoJwt
  /\ jwt.t = "dict" /\ DictHas(jwt, Str("c"))
  /\ DictGet(jwt, Str("c")).t \in {"list", "dict"}
  /\ Len(DictGet(jwt, Str("c")).v) > 0
  /\ DictKeys(jwt) \cap {Str(n) : n \in REGISTERED_NAMES} # {}

RegisteredKeys(d) == {k \in DictKeys(d) : k.t = "str" /\ k.v \in REGISTERED_NAMES}

(* C2: reserved-name protection.  create with a custom claim named by a
   registered name fails whatever the value and the other arguments, and
   the custom claim names of a claim set hold no registered name. *)
ReservedNameProtection ==
  /\ Created /\ call.arg.custom_claims # None
       /\ RegisteredKeys(call.arg.custom_claims) # {} => Failed
  /\ Live /\ jwt.t = "dict" =>
       /\ custom_claim_names(jwt).err = "none"
       /\ custom_claim_names(jwt).val.v \cap REGISTERED_NAMES = {}

(* create failed on a registered custom name passed along with an
   otherwise acceptable argument *)
ReservedNameWitness ==
  /\ Created /\ Failed
  /\ call.arg.custom_claims # None
  /\ RegisteredKeys(call.arg.custom_claims) # {}
  /\ call.arg.issuer = Str("a")

(* the outcome the audience rule allows for an audience value a: a bare
   string is a one-element list, a non-empty list of strings is itself,
   anything else is refused *)
AllStr(items) == \A i \in 1..Len(items) : items[i].t = "str"
AudienceShape(a) ==
  IF a.t = "str" THEN Ok(List(<<a>>))
  ELSE IF a.t = "list" /\ Len(a.v) > 0 /\ AllStr(a.v) THEN Ok(a)
  ELSE Raise("refused")

Without(d, k) == Dict(SelectSeq(d.v, LAMBDA item : item[1] # k))

(* the outcome of a construction for the audience value a, `rest` being
   the outcome of the same construction without the audience *)
AudienceOutcome(a, rest) ==
  /\ Live => /\ AudienceShape(a).err = "none"
             /\ IsTrue(has_audiences(jwt))
             /\ audiences(jwt) = AudienceShape(a)
  /\ AudienceShape(a).err # "none" => Failed
  /\ AudienceShape(a).err = "none" /\ rest.err = "none" => Live

(* in a claim set, aud is a non-empty list of strings *)
AudienceInvariant ==
  Live /\ IsTrue(has_audiences(jwt)) =>
    LET aud == Subscript(jwt, "aud")
    IN aud.err = "none" /\ aud.val.t = "list" /\ Len(aud.val.v) > 0 /\ AllStr(aud.val.v)

AudienceOnParse ==
  ParsedText /\ Loads(call.arg.text).err = "none"
    /\ Loads(call.arg.text).val.t = "dict"
    /\ DictHas(Loads(call.arg.text).val, Str("aud")) =>
      LET d == Loads(call.arg.text).val
      IN AudienceOutcome(DictGet(d, Str("aud")), init(Without(d, Str("aud"))))

(* C3 as stated: on both paths the outcome for an audience value depends
   on the value alone and is the same, every non-list non-string value,
   None included, being refused. *)
AudienceShapeOnBothPaths ==
  /\ Created =>
       AudienceOutcome(call.arg.audiences, create([call.arg EXCEPT !.audiences = None]))
  /\ AudienceOnParse
  /\ AudienceInvariant

(* C3, amended: the same for every audience value other than None;
   create(audiences=None) stores no aud and does not fail for it, whereas
   "aud": null in a payload is refused. *)
AudienceShapeUnlessNone ==
  /\ Created /\ call.arg.audiences # None =>
       AudienceOutcome(call.arg.audiences, create([call.arg EXCEPT !.audiences = None]))
  /\ Created /\ call.arg.audiences = None /\ Live => IsFalse(has_audiences(jwt))
  /\ AudienceOnParse
  /\ AudienceInvariant

(* a bare string audience has been normalised by a construction *)
AudienceShapeWitness ==
  /\ Live
  /\ \/ Created /\ call.arg.audiences = Str("a")
     \/ ParsedText /\ call.arg.of = NoJwt
          /\ call.arg.text = <<LBrace, Tok("string", "aud"), Colon, Tok("string", "a"), RBrace>>
  /\ audiences(jwt) = Ok(List(<<Str("a")>>))

WholeSeconds(x) == x.t = "int" \/ (x.t = "float" /\ x.v % 2 = 0)

(* C4: in every claim set each of exp, nbf, iat, if present, is a whole
   number of seconds: not a fractional number, not a boolean. *)
TimestampInvariant ==
  Live /\ jwt.t = "dict" =>
    \A n \in {"exp", "nbf", "iat"} :
      DictHas(jwt, Str(n)) => WholeSeconds(DictGet(jwt, Str(n)))

(* C5: every failure of create or from_json_payload is reported as
   JwtInvalidError. *)
SingleErrorKind ==
  (Created \/ ParsedText) /\ ret.err # "none" => ret.err = "JwtInvalidError"

(* C6: from_json_payload returns a claim set only for a JSON object: the
   payload of every claim set it returns is a mapping. *)
ObjectsOnly == ParsedText /\ Live => jwt.t = "dict"

TimeArgs == {<<"expiration", "exp">>, <<"not_before", "nbf">>, <<"issued_at", "iat">>}
TimeGetter(claim, payload) ==
  CASE claim = "exp" -> expiration(payload)
    [] claim = "nbf" -> not_before(payload)
    [] OTHER -> issued_at(payload)

(* the whole seconds of an aware datetime in exact arithmetic: its UTC
   seconds with the fraction us/10^6 dropped (toward zero) *)
TruncatedSeconds(d) ==
  LET s == UtcSeconds(d)
  IN IF s[1] < 1 /\ s[2] < 0 /\ d.us > 0 THEN <<s[1], s[2] + 1>> ELSE s

(* C8: timezone requirement.  create with a datetime without tzinfo
   fails; with an aware datetime it succeeds (the other arguments
   allowing), stores the instant as whole seconds with the fraction
   truncated, and the getter returns that second as an aware UTC
   datetime. *)
TimezoneRequirement ==
  Created =>
    \A p \in TimeArgs :
      LET t == call.arg[p[1]]
      IN t # None =>
           /\ t.v.tzinfo = <<>> => Failed
           /\ t.v.tzinfo # <<>> /\ create([call.arg EXCEPT ![p[1]] = None]).err = "none" => Live
           /\ t.v.tzinfo # <<>> /\ Live =>
                /\ Subscript(jwt, p[2]) = Ok([t |-> "int", v |-> TruncatedSeconds(t.v)])
                /\ TimeGetter(p[2], jwt) = Ok(Datetime(<<0>>, TruncatedSeconds(t.v), 0))

JsonType(x) == x.t \in {"none", "bool", "int", "float", "str", "list", "dict"}

RECURSIVE JsonExpressible(_)
(* a value JSON can express: null, a boolean, a number, a string, a list
   of such values, a dict from strings to such values *)
JsonExpressible(x) ==
  CASE x.t \in {"none", "bool", "int", "float", "str"} -> TRUE
    [] x.t = "list" -> \A i \in 1..Len(x.v) : JsonExpressible(x.v[i])
    [] x.t = "dict" ->
         \A i \in 1..Len(x.v) : x.v[i][1].t = "str" /\ JsonExpressible(x.v[i][2])
    [] OTHER -> FALSE

(* C9: unknown type rejection.  create fails when a custom claim value is
   not null, a boolean, a number, a string, a list or a dict; when it
   succeeds every stored custom claim value is JSON-expressible all the
   way down, a list or dict value being what a JSON encode and decode of
   the given value yields. *)
UnknownTypeRejection ==
  Created =>
    LET cc == call.arg.custom_claims
    IN /\ cc # None /\ (\E i \in 1..Len(cc.v) : ~JsonType(cc.v[i][2])) => Failed
       /\ Live /\ cc # None =>
            \A i \in 1..Len(cc.v) :
              /\ DictHas(jwt, cc.v[i][1])
              /\ JsonExpressible(DictGet(jwt, cc.v[i][1]))
              /\ cc.v[i][2].t \in {"list", "dict"} =>
                   Ok(DictGet(jwt, cc.v[i][1])) = Loads(Dumps(cc.v[i][2]).val)
       /\ Live => \A n \in custom_claim_names(jwt).val.v :
                    JsonExpressible(DictGet(jwt, Str(n)))

(* create stored a list whose nested tuple the canonical form turned into
   a list, another create failed on an opaque object *)
UnknownTypeWitness ==
  /\ Created /\ Live
  /\ call.arg.custom_claims =
       Dict(<<<<Str("c"), List(<<Str("a"), Tuple(<<Str("b")>>)>>)>>>>)
  /\ custom_claim(jwt, "c") = Ok(List(<<Str("a"), List(<<Str("b")>>)>>))

(* C10: presence after create.  has_jwt_id() is true exactly when jwt_id
   is not None (an empty string is stored), has_audiences() exactly when
   audiences is not None, has_issuer() and has_subject() exactly when the
   argument is a non-empty string; a payload with "iss": "" has an
   issuer. *)
NonEmptyStr(x) == x.t = "str" /\ x.v # ""
PresenceAfterCreate ==
  /\ Created /\ Live =>
       /\ IsTrue(has_jwt_id(jwt)) <=> call.arg.jwt_id # None
       /\ IsFalse(has_jwt_id(jwt)) <=> call.arg.jwt_id = None
       /\ call.arg.jwt_id = Str("") => jwt_id(jwt) = Ok(Str(""))
       /\ IsTrue(has_audiences(jwt)) <=> call.arg.audiences # None
       /\ IsFalse(has_audiences(jwt)) <=> call.arg.audiences = None
       /\ IsTrue(has_issuer(jwt)) <=> NonEmptyStr(call.arg.issuer)
       /\ IsFalse(has_issuer(jwt)) <=> ~NonEmptyStr(call.arg.issuer)
       /\ IsTrue(has_subject(jwt)) <=> NonEmptyStr(call.arg.subject)
       /\ IsFalse(has_subject(jwt)) <=> ~NonEmptyStr(call.arg.subject)
  /\ ParsedText /\ call.arg.text = Dumps(Dict(<<<<Str("iss"), Str("")>>>>)).val =>
       Live /\ IsTrue(has_issuer(jwt)) /\ issuer(jwt) = Ok(Str(""))

(* create(issuer="", jwt_id="") made a claim set with a jwt id and no
   issuer *)
PresenceWitness ==
  /\ Created /\ Live
  /\ call.arg.issuer = Str("") /\ call.arg.jwt_id = Str("")
  /\ IsFalse(has_issuer(jwt)) /\ IsTrue(has_jwt_id(jwt))

(* C7: immutability and defensive copies.  Whatever accessors the caller
   calls and whatever it mutates among the objects they returned and the
   objects it passed to create, the stored claims are those of the
   construction, and audiences(), custom_claim(name) and json_payload()
   return what they would have returned at first. *)
Immutability ==
  phase = "live" =>
    /\ Deep(heap, jwt) = snap
    /\ jwt.v \notin Reachable(heap, held)
    /\ call.op = "audiences" => [err |-> ret.err, val |-> Deep(heap, ret.val)] = audiences(snap)
    /\ call.op = "custom_claim" =>
         [err |-> ret.err, val |-> Deep(heap, ret.val)] = custom_claim(snap, call.arg.v)
    /\ call.op = "json_payload" => ret = json_payload(snap)

(* custom_claim returns the stored list again after the caller has mutated
   both the list an earlier custom_claim returned and the list it had
   passed to create as that claim *)
ImmutabilityWitness ==
  /\ phase = "live" /\ jwt.t = "ref"
  /\ call.op = "custom_claim" /\ ret.err = "none" /\ ret.val.t = "ref"
  /\ \E id \in held :
       /\ id > jwt.v /\ id # ret.val.v
       /\ heap[id].t = "list" /\ {Str("x"), Str("X")} \subseteq Range(heap[id].v)
  /\ call.arg = Str("c")
  /\ Deep(heap, Ref(3)) # DictGet(snap, Str("c"))

=============================================================================
